---- MODULE Spec2Model ----
(***************************************************************************)
(* A model of backend/main.py, the image resizer and compressor service:   *)
(* the two POST handlers (process_single, process_zip) and the pure        *)
(* helpers they call.                                                      *)
(*                                                                         *)
(* Representation.  A Python str is a tuple of one-character strings, so   *)
(* that strip, lower, split, int() and the regular expressions are         *)
(* computed character by character.  A form field that was not sent        *)
(* (Python None) is the empty tuple: every handler reads such a field      *)
(* through `x or ""` or through _parse_int, which treat None and "" alike. *)
(* An Optional[int] is None (the empty tuple) or Some(n), the tuple <<n>>. *)
(***************************************************************************)
EXTENDS Integers, Sequences, FiniteSets, TLC

VARIABLES
    req,              \* the request as received: endpoint and raw form fields
    pc,               \* "start", "read" (single), "loop" (batch), "done"
    out_fmt,          \* _normalize_format(out_format)
    w, h,             \* _parse_int(width), _parse_int(height)
    pct, fixed,       \* the parsed preset of process_zip
    zf,               \* zf.namelist(): entry names written so far, in order
    processed_count,  \* process_zip's counter
    reads,            \* history: number of `await file.read()` done
    decodes,          \* history: number of Image.open calls done
    nGood, nBad,      \* history: decodable / undecodable non-empty files read
    last,             \* history: sizes of the last file that was encoded
    status, detail,   \* the HTTP response: 0 = none yet, 200, 400 and its detail
    body,             \* what the response carries: "none", "image", "zip"
    call, ret         \* argument and result of a helper called on its own

vars == <<req, pc, out_fmt, w, h, pct, fixed, zf, processed_count, reads,
          decodes, nGood, nBad, last, status, detail, body, call, ret>>

reqvars == <<req, pc, out_fmt, w, h, pct, fixed, zf, processed_count, reads,
             decodes, nGood, nBad, last, status, detail, body>>

-----------------------------------------------------------------------------
(* Python values *)

None == <<>>
Some(n) == <<n>>

MAX_DIMENSION == 20000

Range(s) == {s[i] : i \in DOMAIN s}

UpperLetters == <<"A","B","C","D","E","F","G","H","I","J","K","L","M",
                  "N","O","P","Q","R","S","T","U","V","W","X","Y","Z">>

LowerLetters == <<"a","b","c","d","e","f","g","h","i","j","k","l","m",
                  "n","o","p","q","r","s","t","u","v","w","x","y","z">>

DigitChars == <<"0","1","2","3","4","5","6","7","8","9">>

Whitespace == {" ", "\t", "\n", "\r"}

IndexOf(s, c) == CHOOSE i \in DOMAIN s : s[i] = c

\* [A-Za-z0-9]
Alnum == Range(UpperLetters) \cup Range(LowerLetters) \cup Range(DigitChars)

\* str.lower()
lower(s) ==
    [i \in DOMAIN s |->
        IF s[i] \in Range(UpperLetters)
        THEN LowerLetters[IndexOf(UpperLetters, s[i])] ELSE s[i]]

RECURSIVE lstrip(_, _)
lstrip(s, chars) ==
    IF s # <<>> /\ Head(s) \in chars THEN lstrip(Tail(s), chars) ELSE s

RECURSIVE rstrip(_, _)
rstrip(s, chars) ==
    IF s # <<>> /\ s[Len(s)] \in chars
    THEN rstrip(SubSeq(s, 1, Len(s) - 1), chars) ELSE s

\* str.strip() and str.strip(chars)
strip_chars(s, chars) == rstrip(lstrip(s, chars), chars)

strip(s) == strip_chars(s, Whitespace)

\* str.endswith(c) and `c in s` for a one-character c
endswith(s, c) == s # <<>> /\ s[Len(s)] = c

contains(s, c) == c \in Range(s)

\* s.split(c, 1): the parts before and after the first c (c occurs in s)
split_once(s, c) ==
    LET i == CHOOSE k \in DOMAIN s : s[k] = c /\ \A j \in 1..(k - 1) : s[j] # c
    IN  <<SubSeq(s, 1, i - 1), SubSeq(s, i + 1, Len(s))>>

\* s.split(c)[-1]: what follows the last c, or all of s
last_part(s, c) ==
    IF ~contains(s, c) THEN s
    ELSE LET i == CHOOSE k \in DOMAIN s :
                      s[k] = c /\ \A j \in (k + 1)..Len(s) : s[j] # c
         IN  SubSeq(s, i + 1, Len(s))

\* s.replace(a, b) for one-character a, b
replace(s, a, b) == [i \in DOMAIN s |-> IF s[i] = a THEN b ELSE s[i]]

\* re.sub(r"[bad]+", "_", s): every maximal run of characters of `bad`
\* becomes one underscore
re_sub_runs(s, bad) ==
    LET kept(i) == s[i] \notin bad \/ i = 1 \/ s[i - 1] \notin bad
        RECURSIVE build(_)
        build(i) ==
            IF i > Len(s) THEN <<>>
            ELSE IF ~kept(i) THEN build(i + 1)
            ELSE <<IF s[i] \in bad THEN "_" ELSE s[i]>> \o build(i + 1)
    IN  build(1)

RECURSIVE digits_value(_)
digits_value(s) ==
    IF s = <<>> THEN 0
    ELSE 10 * digits_value(SubSeq(s, 1, Len(s) - 1))
         + (IndexOf(DigitChars, s[Len(s)]) - 1)

\* int(s): Some(n), or None where Python raises ValueError
py_int(s) ==
    LET t      == strip(s)
        signed == t # <<>> /\ Head(t) \in {"-", "+"}
        digs   == IF signed THEN Tail(t) ELSE t
    IN  IF digs = <<>> \/ \E i \in DOMAIN digs : digs[i] \notin Range(DigitChars)
        THEN None
        ELSE IF t[1] = "-" THEN Some(0 - digits_value(digs))
        ELSE Some(digits_value(digs))

\* str(n) for n >= 0
RECURSIVE py_str(_)
py_str(n) ==
    IF n < 10 THEN <<DigitChars[n + 1]>>
    ELSE py_str(n \div 10) \o <<DigitChars[(n % 10) + 1]>>

Max(a, b) == IF a >= b THEN a ELSE b

Min(a, b) == IF a <= b THEN a ELSE b

RECURSIVE GCD(_, _)
GCD(a, b) == IF b = 0 THEN a ELSE GCD(b, a % b)

RECURSIVE IsPow2(_)
IsPow2(n) == n = 1 \/ (n > 1 /\ n % 2 = 0 /\ IsPow2(n \div 2))

\* round(x) of an exactly known x = n/d >= 0: Python rounds a tie to even
round_half_even(n, d) ==
    LET q == n \div d
        r == n % d
    IN  IF 2 * r < d THEN q
        ELSE IF 2 * r > d THEN q + 1
        ELSE IF q % 2 = 0 THEN q ELSE q + 1

(***************************************************************************)
(* int(round(k * (num / den))) in binary floating point, k, num >= 0 and   *)
(* den > 0 integers far below 2^26.  num/den is rounded to a double, then  *)
(* the product is rounded again; the total relative error is below 2^-51,  *)
(* so the result is the nearest integer to k*num/den whenever that is not  *)
(* a tie.  At a tie the result is round-half-even if num/den is a dyadic   *)
(* rational (both steps are then exact), and otherwise depends on the      *)
(* direction of the rounding errors: 150 * 0.07 is 10.500000000000002 and  *)
(* rounds to 11, 50 * 0.07 is 3.5000000000000004 and rounds to 4.  The     *)
(* model returns both neighbours there.                                    *)
(***************************************************************************)
round_scaled(k, num, den) ==
    LET n == k * num
        q == n \div den
        r == n % den
    IN  IF 2 * r # den \/ IsPow2(den \div GCD(num, den))
        THEN {round_half_even(n, den)}
        ELSE {q, q + 1}

-----------------------------------------------------------------------------
(* The helpers of main.py *)

s_image == <<"i","m","a","g","e">>
s_jpg   == <<"j","p","g">>
s_jpeg  == <<"j","p","e","g">>
s_png   == <<"p","n","g">>
s_webp  == <<"w","e","b","p">>

\* [A-Za-z0-9._-]
FilenameChars == Alnum \cup {".", "_", "-"}

_clean_filename(name) ==
    LET n1 == last_part(replace(strip(name), "\\", "/"), "/")
        n2 == re_sub_runs(n1, Range(n1) \ FilenameChars)
        n3 == strip_chars(re_sub_runs(n2, {"_"}), {"_"})
    IN  IF n3 = <<>> THEN s_image ELSE n3

\* re.match(r"^(.*?)(\.[A-Za-z0-9]+)?$", name): the lazy first group is the
\* shortest prefix whose remainder is empty or a dot followed by alphanumerics
_split_name_ext(name) ==
    LET is_ext(i) ==
            LET e == SubSeq(name, i + 1, Len(name))
            IN  e = <<>> \/ (/\ Len(e) >= 2
                             /\ e[1] = "."
                             /\ \A j \in 2..Len(e) : e[j] \in Alnum)
        i == CHOOSE k \in 0..Len(name) :
                 is_ext(k) /\ \A j \in 0..(k - 1) : ~is_ext(j)
    IN  <<SubSeq(name, 1, i), SubSeq(name, i + 1, Len(name))>>

_parse_int(v) ==
    LET t == strip(v)
    IN  IF t = <<>> THEN None ELSE py_int(t)

\* the detail of the HTTPException raised, "" when none is
dim_error(n) ==
    IF n = None THEN ""
    ELSE IF n[1] <= 0 THEN "Width/Height must be positive."
    ELSE IF n[1] > MAX_DIMENSION THEN "Max dimension is 20000px."
    ELSE ""

_validate_dims(width, height) ==
    IF dim_error(width) # "" THEN dim_error(width) ELSE dim_error(height)

_normalize_format(fmt) ==
    LET f == lower(strip(fmt))
    IN  IF f \in {s_jpg, s_jpeg} THEN s_jpeg
        ELSE IF f = s_png THEN s_png
        ELSE IF f = s_webp THEN s_webp
        ELSE <<>>

_format_ext(fmt) == IF fmt = s_jpeg THEN <<".">> \o s_jpg ELSE <<".">> \o fmt

\* the sizes max(1, int(round(ow * scale))), max(1, int(round(oh * scale)))
\* for scale = num / den
scaled_sizes(ow, oh, num, den) ==
    {<<Max(1, a), Max(1, b)>> :
        a \in round_scaled(ow, num, den), b \in round_scaled(oh, num, den)}

\* mutation of fit_scale: the larger of the two ratios (fill, not fit)
fit_scale_max(ow, oh, tw, th) ==
    IF tw * oh >= th * ow THEN <<tw, ow>> ELSE <<th, oh>>

\* scale = min(tw / ow, th / oh) as the pair <<numerator, denominator>>
fit_scale(ow, oh, tw, th) ==
    IF tw * oh <= th * ow THEN <<tw, ow>> ELSE <<th, oh>>

\* the sizes the function can return (more than one only at a rounding tie)
_fit_size_keep_ratio(ow, oh, tw, th) ==
    IF tw = None /\ th = None THEN {<<ow, oh>>}
    ELSE IF tw # None /\ th = None THEN scaled_sizes(ow, oh, tw[1], ow)
    ELSE IF th # None /\ tw = None THEN scaled_sizes(ow, oh, th[1], oh)
    ELSE LET s == fit_scale(ow, oh, tw[1], th[1])
         IN  scaled_sizes(ow, oh, s[1], s[2])

\* `n or d` for an Optional[int] n
or_else(n, d) == IF n = None \/ n[1] = 0 THEN d ELSE n[1]

\* the images the function can return; resize keeps the mode
_resize_image(img, tw, th, keep_ratio) ==
    LET ow == img.size[1]
        oh == img.size[2]
        targets == IF keep_ratio THEN _fit_size_keep_ratio(ow, oh, tw, th)
                   ELSE {<<or_else(tw, ow), or_else(th, oh)>>}
    IN  IF tw = None /\ th = None THEN {img}
        ELSE {IF t = <<ow, oh>> THEN img ELSE [img EXCEPT !.size = t] :
                  t \in targets}

\* mutation of _prepare_for_format: a palette image is left as it is for
\* PNG and WEBP
_prepare_for_format_keep_palette(img, fmt) ==
    IF fmt = s_jpeg
    THEN IF img.mode \in {"RGBA", "LA"} \/ (img.mode = "P" /\ img.transparency)
         THEN [size |-> img.size, mode |-> "RGB", via |-> "paste"]
         ELSE IF img.mode # "RGB"
         THEN [size |-> img.size, mode |-> "RGB", via |-> "convert"]
         ELSE [size |-> img.size, mode |-> img.mode, via |-> "same"]
    ELSE [size |-> img.size, mode |-> img.mode, via |-> "same"]

\* img.mode is a PIL mode; img.transparency is `"transparency" in img.info`.
\* The result records how it was made: "paste" (composited onto a white RGB
\* background through the alpha channel), "convert", or "same" (img itself).
_prepare_for_format(img, fmt) ==
    IF fmt = s_jpeg
    THEN IF img.mode \in {"RGBA", "LA"} \/ (img.mode = "P" /\ img.transparency)
         THEN [size |-> img.size, mode |-> "RGB", via |-> "paste"]
         ELSE IF img.mode # "RGB"
         THEN [size |-> img.size, mode |-> "RGB", via |-> "convert"]
         ELSE [size |-> img.size, mode |-> img.mode, via |-> "same"]
    ELSE IF fmt \in {s_png, s_webp}
    THEN IF img.mode = "P"
         THEN [size |-> img.size, mode |-> "RGBA", via |-> "convert"]
         ELSE [size |-> img.size, mode |-> img.mode, via |-> "same"]
    ELSE [size |-> img.size, mode |-> img.mode, via |-> "same"]

\* q = int(max(10, min(100, quality)))
clamp_quality(quality) == Max(10, Min(100, quality))

\* mutation of png_compress_level: the quality range taken to be 100 wide
png_compress_level_per_100(quality) ==
    Max(0, Min(9, round_half_even((100 - clamp_quality(quality)) * 9, 100)))

\* compress_level = max(0, min(9, int(round((100 - q) * 9 / 90)))); the
\* quotient of two integers is one correctly rounded division, so a tie is
\* an exact x.5 and rounds to even
png_compress_level(quality) ==
    Max(0, Min(9, round_half_even((100 - clamp_quality(quality)) * 9, 90)))

\* what is handed to img.save, or the HTTPException of the else branch
_save_image(img, fmt, quality) ==
    IF fmt = s_jpeg
    THEN [ok |-> TRUE, format |-> "JPEG", quality |-> clamp_quality(quality),
          compress_level |-> -1, detail |-> ""]
    ELSE IF fmt = s_webp
    THEN [ok |-> TRUE, format |-> "WEBP", quality |-> clamp_quality(quality),
          compress_level |-> -1, detail |-> ""]
    ELSE IF fmt = s_png
    THEN [ok |-> TRUE, format |-> "PNG", quality |-> -1,
          compress_level |-> png_compress_level(quality), detail |-> ""]
    ELSE [ok |-> FALSE, format |-> "", quality |-> -1, compress_level |-> -1,
          detail |-> "Unsupported output format."]

NoSize == <<0, 0>>

Failure(d) == [ok |-> FALSE, detail |-> d, size |-> NoSize]

\* data is an upload's bytes as what they decode to: kind is "empty" (no
\* bytes), "bad" (Image.open raises) or "img", and img is then the image
\* after ImageOps.exif_transpose.  The outcomes of _process_bytes: the
\* error raised, or the size returned.
_process_bytes(data, width, height, keep_ratio, quality, fmt) ==
    IF data.kind # "img" THEN {Failure("Could not read image")}
    ELSE IF _validate_dims(width, height) # ""
    THEN {Failure(_validate_dims(width, height))}
    ELSE {LET p == _prepare_for_format(r, fmt)
              s == _save_image(p, fmt, quality)
          IN  IF s.ok THEN [ok |-> TRUE, detail |-> "", size |-> p.size]
              ELSE Failure(s.detail) :
          r \in _resize_image(data.img, width, height, keep_ratio)}

-----------------------------------------------------------------------------
(* The code of the two handlers *)

\* mutation of FormatRejected: the handler goes on with any format
FormatRejectedNever(fmt) == FALSE

\* `if not out_fmt: raise HTTPException(400, ...)`
FormatRejected(fmt) == fmt = <<>>

\* process_zip's preset parsing: <<pct, fixed>>
parse_preset(preset) ==
    LET p == strip(preset)
    IN  IF endswith(p, "%")
        THEN LET v == py_int(SubSeq(p, 1, Len(p) - 1))
             IN  <<IF v = None \/ v[1] <= 0 THEN None ELSE v, None>>
        ELSE IF contains(p, "x")
        THEN LET ab == split_once(lower(p), "x")
                 a  == py_int(ab[1])
                 b  == py_int(ab[2])
             IN  <<None, IF a = None \/ b = None THEN None ELSE <<a[1], b[1]>>>>
        ELSE <<None, None>>

\* mutation of use_dims: the height target taken from the width
use_dims_width_only(img, p, fx, width, height) ==
    IF p # None
    THEN {<<Some(Max(1, a)), Some(Max(1, b))>> :
             a \in round_scaled(img.size[1], p[1], 100),
             b \in round_scaled(img.size[1], p[1], 100)}
    ELSE IF fx # None THEN {<<Some(fx[1]), Some(fx[2])>>}
    ELSE {<<width, height>>}

\* process_zip's per-file <<use_w, use_h>>; with a percentage preset the
\* file has been decoded, and a rounding tie may fall either way
use_dims(img, p, fx, width, height) ==
    IF p # None
    THEN {<<Some(Max(1, a)), Some(Max(1, b))>> :
             a \in round_scaled(img.size[1], p[1], 100),
             b \in round_scaled(img.size[2], p[1], 100)}
    ELSE IF fx # None THEN {<<Some(fx[1]), Some(fx[2])>>}
    ELSE {<<width, height>>}

\* f.filename or f"image_{processed_count+1}"
default_name(filename, count) ==
    IF filename = <<>> THEN s_image \o <<"_">> \o py_str(count + 1) ELSE filename

\* process_zip's out_name for a file, given zf.namelist()
entry_name(filename, count, names, fmt) ==
    LET safe == _clean_filename(default_name(filename, count))
        base == _split_name_ext(safe)[1]
        name == base \o _format_ext(fmt)
    IN  IF name \in Range(names)
        THEN base \o <<"_">> \o py_str(count + 1) \o _format_ext(fmt)
        ELSE name

\* process_single's out_name
single_name(filename, fmt) ==
    LET safe == _clean_filename(IF filename = <<>> THEN s_image ELSE filename)
    IN  _split_name_ext(safe)[1] \o _format_ext(fmt)

\* mutation of NoneProcessed: an empty archive is returned
NoneProcessedIgnored(count) == FALSE

\* `if processed_count == 0: raise HTTPException(400, ...)`
NoneProcessed(count) == count = 0

-----------------------------------------------------------------------------
(* The requests a client sends *)

MaxFiles == 3

\* quality: int = Form(85)
DefaultQuality == 85

WidthInputs == {<<>>, <<"4">>, <<"-","5">>, <<"2","0","0","0","1">>}

HeightInputs == {<<>>, <<"0">>, <<" ","3"," ">>}

PresetInputs == {<<>>, <<"2","5","0","0","%">>, <<"5","0","%">>, <<"4","0","%">>, <<"a","b","c","%">>, <<"0","%">>, <<"2","x","3">>, <<"a","x","b">>, <<"0","x","0">>, <<"-","5","x","1","0">>}

FormatInputs == {<<"j","p","g">>, <<" ","P","N","G"," ">>, <<"b","m","p">>}

UploadNames == {<<"a",".","p","n","g">>, <<"a","_","3",".","p","n","g">>, <<"d","i","r","/","a",".","g","i","f">>}

UploadSizes == {<<3, 7>>, <<800, 600>>, <<1000, 1000>>}

NoImage == [size |-> NoSize, mode |-> "", transparency |-> FALSE]

\* the files process_zip is sent
Uploads ==
    {[filename |-> n, kind |-> "empty", img |-> NoImage] : n \in UploadNames}
    \cup {[filename |-> n, kind |-> "bad", img |-> NoImage] : n \in UploadNames}
    \cup {[filename |-> n, kind |-> "img",
           img |-> [size |-> z, mode |-> "RGBA", transparency |-> FALSE]] :
             n \in UploadNames, z \in UploadSizes}

\* the files process_single is sent: also one without a filename
SingleUploads ==
    Uploads \cup {[filename |-> <<>>, kind |-> "img",
                   img |-> [size |-> z, mode |-> "RGBA", transparency |-> FALSE]] :
                     z \in UploadSizes}

SingleRequests ==
    {[endpoint |-> "process", width |-> a, height |-> b, preset |-> <<>>,
      keep_ratio |-> k, quality |-> DefaultQuality, out_format |-> f,
      nfiles |-> 1] :
        a \in WidthInputs, b \in HeightInputs, k \in BOOLEAN,
        f \in FormatInputs \cup {<<"W","e","b","P">>, <<>>}}

ZipRequests ==
    {[endpoint |-> "process-zip", width |-> a, height |-> b, preset |-> p,
      keep_ratio |-> k, quality |-> DefaultQuality, out_format |-> f,
      nfiles |-> n] :
        a \in WidthInputs, b \in HeightInputs, p \in PresetInputs,
        k \in BOOLEAN, f \in FormatInputs, n \in 0..MaxFiles}

NoLast == [orig |-> NoSize, target |-> <<None, None>>, size |-> NoSize]

NoCall == <<>>

ReqInit(requests) ==
    /\ req \in requests
    /\ pc = "start"
    /\ out_fmt = <<>>
    /\ w = None /\ h = None /\ pct = None /\ fixed = None
    /\ zf = <<>>
    /\ processed_count = 0
    /\ reads = 0 /\ decodes = 0 /\ nGood = 0 /\ nBad = 0
    /\ last = NoLast
    /\ status = 0 /\ detail = "" /\ body = "none"

Init == ReqInit(SingleRequests \cup ZipRequests) /\ call = NoCall /\ ret = NoCall

\* the handler raises HTTPException(400, d)
Raise(d) ==
    /\ pc' = "done"
    /\ status' = 400
    /\ detail' = d
    /\ body' = "none"

-----------------------------------------------------------------------------
(* process_single *)

SingleReject ==
    /\ pc = "start" /\ req.endpoint = "process"
    /\ FormatRejected(_normalize_format(req.out_format))
    /\ Raise("Output format must be JPG, PNG, or WEBP.")
    /\ UNCHANGED <<req, out_fmt, w, h, pct, fixed, zf, processed_count, reads,
                   decodes, nGood, nBad, last, call, ret>>

SingleBegin ==
    /\ pc = "start" /\ req.endpoint = "process"
    /\ ~FormatRejected(_normalize_format(req.out_format))
    /\ out_fmt' = _normalize_format(req.out_format)
    /\ w' = _parse_int(req.width)
    /\ h' = _parse_int(req.height)
    /\ pc' = "read"
    /\ UNCHANGED <<req, pct, fixed, zf, processed_count, reads, decodes, nGood,
                   nBad, last, status, detail, body, call, ret>>

SingleEmpty ==
    /\ pc = "read"
    /\ \E f \in SingleUploads :
        /\ f.kind = "empty"
        /\ reads' = reads + 1
        /\ Raise("Empty file.")
    /\ UNCHANGED <<req, out_fmt, w, h, pct, fixed, zf, processed_count, decodes,
                   nGood, nBad, last, call, ret>>

SingleFail ==
    /\ pc = "read"
    /\ \E f \in SingleUploads :
        /\ f.kind # "empty"
        /\ \E o \in _process_bytes(f, w, h, req.keep_ratio, req.quality, out_fmt) :
            /\ ~o.ok
            /\ Raise(o.detail)
        /\ reads' = reads + 1
        /\ decodes' = decodes + 1
        /\ nGood' = nGood + (IF f.kind = "img" THEN 1 ELSE 0)
        /\ nBad' = nBad + (IF f.kind = "bad" THEN 1 ELSE 0)
    /\ UNCHANGED <<req, out_fmt, w, h, pct, fixed, zf, processed_count, last,
                   call, ret>>

SingleOk ==
    /\ pc = "read"
    /\ \E f \in SingleUploads :
        /\ f.kind # "empty"
        /\ \E o \in _process_bytes(f, w, h, req.keep_ratio, req.quality, out_fmt) :
            /\ o.ok
            /\ last' = [orig |-> f.img.size, target |-> <<w, h>>, size |-> o.size]
        /\ zf' = <<single_name(f.filename, out_fmt)>>
        /\ reads' = reads + 1
        /\ decodes' = decodes + 1
        /\ nGood' = nGood + 1
    /\ pc' = "done"
    /\ status' = 200
    /\ body' = "image"
    /\ UNCHANGED <<req, out_fmt, w, h, pct, fixed, processed_count, nBad,
                   detail, call, ret>>

-----------------------------------------------------------------------------
(* process_zip *)

ZipNoFiles ==
    /\ pc = "start" /\ req.endpoint = "process-zip"
    /\ req.nfiles = 0
    /\ Raise("No files uploaded.")
    /\ UNCHANGED <<req, out_fmt, w, h, pct, fixed, zf, processed_count, reads,
                   decodes, nGood, nBad, last, call, ret>>

ZipReject ==
    /\ pc = "start" /\ req.endpoint = "process-zip"
    /\ req.nfiles > 0
    /\ FormatRejected(_normalize_format(req.out_format))
    /\ Raise("Output format must be JPG, PNG, or WEBP.")
    /\ UNCHANGED <<req, out_fmt, w, h, pct, fixed, zf, processed_count, reads,
                   decodes, nGood, nBad, last, call, ret>>

ZipBegin ==
    /\ pc = "start" /\ req.endpoint = "process-zip"
    /\ req.nfiles > 0
    /\ ~FormatRejected(_normalize_format(req.out_format))
    /\ out_fmt' = _normalize_format(req.out_format)
    /\ w' = _parse_int(req.width)
    /\ h' = _parse_int(req.height)
    /\ pct' = parse_preset(req.preset)[1]
    /\ fixed' = parse_preset(req.preset)[2]
    /\ pc' = "loop"
    /\ UNCHANGED <<req, zf, processed_count, reads, decodes, nGood, nBad, last,
                   status, detail, body, call, ret>>

\* `if not data: continue`
ZipSkipEmpty ==
    /\ pc = "loop" /\ reads < req.nfiles
    /\ \E f \in Uploads :
        /\ f.kind = "empty"
        /\ reads' = reads + 1
    /\ UNCHANGED <<req, pc, out_fmt, w, h, pct, fixed, zf, processed_count,
                   decodes, nGood, nBad, last, status, detail, body, call, ret>>

\* with a percentage preset: `except Exception: continue`
ZipSkipUndecodable ==
    /\ pc = "loop" /\ reads < req.nfiles
    /\ pct # None
    /\ \E f \in Uploads :
        /\ f.kind = "bad"
        /\ reads' = reads + 1
        /\ decodes' = decodes + 1
        /\ nBad' = nBad + 1
    /\ UNCHANGED <<req, pc, out_fmt, w, h, pct, fixed, zf, processed_count,
                   nGood, last, status, detail, body, call, ret>>

\* the file reaches _process_bytes
Reaches(f) == f.kind = "img" \/ (f.kind = "bad" /\ pct = None)

\* _process_bytes raises: the exception leaves the loop and the handler
ZipFail ==
    /\ pc = "loop" /\ reads < req.nfiles
    /\ \E f \in Uploads :
        /\ Reaches(f)
        /\ \E d \in use_dims(f.img, pct, fixed, w, h) :
           \E o \in _process_bytes(f, d[1], d[2], req.keep_ratio, req.quality,
                                   out_fmt) :
            /\ ~o.ok
            /\ Raise(o.detail)
        /\ reads' = reads + 1
        /\ decodes' = decodes + (IF pct # None THEN 2 ELSE 1)
        /\ nGood' = nGood + (IF f.kind = "img" THEN 1 ELSE 0)
        /\ nBad' = nBad + (IF f.kind = "bad" THEN 1 ELSE 0)
    /\ UNCHANGED <<req, out_fmt, w, h, pct, fixed, zf, processed_count, last,
                   call, ret>>

\* the file is encoded and written to the archive
ZipWrite ==
    /\ pc = "loop" /\ reads < req.nfiles
    /\ \E f \in Uploads :
        /\ Reaches(f)
        /\ \E d \in use_dims(f.img, pct, fixed, w, h) :
           \E o \in _process_bytes(f, d[1], d[2], req.keep_ratio, req.quality,
                                   out_fmt) :
            /\ o.ok
            /\ last' = [orig |-> f.img.size, target |-> d, size |-> o.size]
        /\ zf' = Append(zf, entry_name(f.filename, processed_count, zf, out_fmt))
        /\ processed_count' = processed_count + 1
        /\ reads' = reads + 1
        /\ decodes' = decodes + (IF pct # None THEN 2 ELSE 1)
        /\ nGood' = nGood + 1
    /\ UNCHANGED <<req, pc, out_fmt, w, h, pct, fixed, nBad, status, detail,
                   body, call, ret>>

ZipNoneProcessed ==
    /\ pc = "loop" /\ reads = req.nfiles
    /\ NoneProcessed(processed_count)
    /\ Raise("All uploaded files were empty or invalid.")
    /\ UNCHANGED <<req, out_fmt, w, h, pct, fixed, zf, processed_count, reads,
                   decodes, nGood, nBad, last, call, ret>>

ZipReturn ==
    /\ pc = "loop" /\ reads = req.nfiles
    /\ ~NoneProcessed(processed_count)
    /\ pc' = "done"
    /\ status' = 200
    /\ body' = "zip"
    /\ UNCHANGED <<req, out_fmt, w, h, pct, fixed, zf, processed_count, reads,
                   decodes, nGood, nBad, last, detail, call, ret>>

Next ==
    \/ SingleReject \/ SingleBegin \/ SingleEmpty \/ SingleFail \/ SingleOk
    \/ ZipNoFiles \/ ZipReject \/ ZipBegin \/ ZipSkipEmpty
    \/ ZipSkipUndecodable \/ ZipFail \/ ZipWrite \/ ZipNoneProcessed
    \/ ZipReturn

Spec == Init /\ [][Next]_vars

-----------------------------------------------------------------------------
(* The helpers called on their own: call holds the arguments, ret the      *)
(* result once the call has returned.                                      *)

MaxSide == 8

MaxTarget == 8

QualitySlack == 15

SideSamples == (1..MaxSide) \cup {600, 800, 1000, MAX_DIMENSION}

TargetSamples ==
    {None} \cup {Some(t) : t \in (1..MaxTarget) \cup {MAX_DIMENSION - 1, MAX_DIMENSION}}

QualitySamples == (10 - QualitySlack)..(100 + QualitySlack)

\* the modes Image.open gives its images
Modes == {"1", "L", "LA", "P", "RGB", "RGBA", "CMYK", "YCbCr", "LAB", "I",
          "I;16", "F"}

Idle ==
    /\ req = [endpoint |-> "none"]
    /\ pc = "done"
    /\ out_fmt = <<>>
    /\ w = None /\ h = None /\ pct = None /\ fixed = None
    /\ zf = <<>>
    /\ processed_count = 0
    /\ reads = 0 /\ decodes = 0 /\ nGood = 0 /\ nBad = 0
    /\ last = NoLast
    /\ status = 0 /\ detail = "" /\ body = "none"

InitFit ==
    /\ Idle
    /\ call \in {[fn |-> "fit", ow |-> a, oh |-> b, tw |-> c, th |-> d] :
                    a \in SideSamples, b \in SideSamples,
                    c \in TargetSamples, d \in TargetSamples}
    /\ ret = NoCall

FitCall ==
    /\ call.fn = "fit" /\ ret = NoCall
    /\ \E z \in _fit_size_keep_ratio(call.ow, call.oh, call.tw, call.th) :
        ret' = Some(z)
    /\ UNCHANGED <<reqvars, call>>

SpecFit == InitFit /\ [][FitCall]_vars

NoSave == [quality |-> 0, saved |-> _save_image(NoImage, <<>>, 0)]

InitSave ==
    /\ Idle
    /\ call \in {[fn |-> "save", fmt |-> f, quality |-> q, prev |-> NoSave] :
                    f \in {s_jpeg, s_png, s_webp, <<>>}, q \in QualitySamples}
    /\ ret = NoCall

SaveCall ==
    /\ call.fn = "save" /\ ret = NoCall
    /\ ret' = Some(_save_image(NoImage, call.fmt, call.quality))
    /\ UNCHANGED <<reqvars, call>>

\* the next call, with another quality; the call before is remembered
SaveNext ==
    /\ call.fn = "save" /\ ret # NoCall
    /\ \E q \in QualitySamples :
        /\ call' = [call EXCEPT !.quality = q,
                                !.prev = [quality |-> call.quality, saved |-> ret[1]]]
        /\ ret' = Some(_save_image(NoImage, call.fmt, q))
    /\ UNCHANGED reqvars

NextSave == SaveCall \/ SaveNext

SpecSave == InitSave /\ [][NextSave]_vars

InitPrepare ==
    /\ Idle
    /\ call \in {[fn |-> "prepare", fmt |-> f,
                  img |-> [size |-> <<a, b>>, mode |-> m, transparency |-> t]] :
                    f \in {s_jpeg, s_png, s_webp}, a \in 1..MaxSide,
                    b \in 1..MaxSide, m \in Modes, t \in BOOLEAN}
    /\ ret = NoCall

PrepareCall ==
    /\ call.fn = "prepare" /\ ret = NoCall
    /\ ret' = Some(_prepare_for_format(call.img, call.fmt))
    /\ UNCHANGED <<reqvars, call>>

SpecPrepare == InitPrepare /\ [][PrepareCall]_vars

-----------------------------------------------------------------------------
(* Properties *)

IsZip == req.endpoint = "process-zip"

Done == pc = "done"

\* the out_format values sent that name jpg, jpeg, png or webp once trimmed
\* and lower-cased
AcceptedFormats == {<<"j","p","g">>, <<" ","P","N","G"," ">>, <<"W","e","b","P">>}

\* the width and height values sent that are integers outside (0, 20000]
OutOfRangeWidths == {<<"-","5">>, <<"2","0","0","0","1">>}

OutOfRangeHeights == {<<"0">>}

ExplicitOutOfRange ==
    req.width \in OutOfRangeWidths \/ req.height \in OutOfRangeHeights

\* the preset tokens sent that are neither "NNN%" nor "WxH" with positive
\* integers
InvalidPresetTokens == {<<"a","b","c","%">>, <<"0","%">>, <<"a","x","b">>, <<"0","x","0">>, <<"-","5","x","1","0">>}

DimErrors == {"Width/Height must be positive.", "Max dimension is 20000px."}

InRange(n) == n = None \/ (n[1] >= 1 /\ n[1] <= MAX_DIMENSION)

\* r is an integer nearest to n/d
Nearest(r, n, d) ==
    LET e == r * d - n
    IN  2 * (IF e < 0 THEN 0 - e ELSE e) <= d

\* t = max(1, round(o * p / 100))
IsPercentOf(t, o, p) ==
    \/ t >= 2 /\ Nearest(t, o * p, 100)
    \/ t = 1 /\ (Nearest(1, o * p, 100) \/ Nearest(0, o * p, 100))

\* a file has been encoded under a percentage preset
EncodedWithPercent == IsZip /\ pct # None /\ last # NoLast

\* C1: in process_zip, whatever the preset, a non-empty file that cannot be
\* decoded is skipped: the request never fails with the decode error, and an
\* archive that is returned holds every decodable file.
C1_UndecodableSkipped ==
    IsZip =>
        /\ detail # "Could not read image"
        /\ (status = 200 => Len(zf) = nGood)

\* C2: in process_zip every entry is written under a name that differs from
\* every name already in the archive.
C2_DistinctEntryNames ==
    IsZip => \A i, j \in DOMAIN zf : i # j => zf[i] # zf[j]

\* C3: in process_zip an archive that is returned holds exactly one entry per
\* non-empty decodable file, all files having been read; with a valid format
\* and valid dimensions, only empty files besides, one decodable file is
\* enough for the archive to be returned; and when no file was processed the
\* request ends in a 400 with no archive.
C3_BatchPartialFailure ==
    (IsZip /\ Done) =>
        /\ status = 200 =>
              /\ body = "zip"
              /\ reads = req.nfiles
              /\ Len(zf) = nGood
              /\ nGood >= 1
        /\ processed_count = 0 => (status = 400 /\ body = "none")
        /\ ( /\ req.out_format \in AcceptedFormats
             /\ InRange(w) /\ InRange(h)
             /\ fixed = None \/ (InRange(Some(fixed[1])) /\ InRange(Some(fixed[2])))
             /\ pct = None \/ pct[1] <= 100
             /\ nBad = 0 /\ nGood >= 1 )
           => status = 200

\* three files, one of them empty and two valid: two entries and no error
C3_Witness ==
    /\ IsZip /\ Done
    /\ req.nfiles = 3 /\ reads = 3 /\ nGood = 2 /\ nBad = 0
    /\ status = 200 /\ body = "zip" /\ Len(zf) = 2

\* C5: on both endpoints a request whose explicit width or height is an
\* integer outside (0, 20000] ends in a 400 and returns no image or archive.
C5_OutOfRangeRejected ==
    (Done /\ ExplicitOutOfRange) => (status = 400 /\ body = "none")

\* C6: on both endpoints, an out_format outside jpg, jpeg, png, webp ends the
\* request in a 400 with no body, and no file is read or decoded at any point
\* of such a request.
C6_FormatRejectedBeforeRead ==
    req.out_format \notin AcceptedFormats =>
        /\ reads = 0 /\ decodes = 0
        /\ pc \in {"start", "done"}
        /\ Done => (status = 400 /\ body = "none" /\ zf = <<>>)

C6_Witness ==
    /\ IsZip /\ Done
    /\ req.out_format = <<"b","m","p">>
    /\ req.nfiles = 3
    /\ status = 400 /\ detail = "Output format must be JPG, PNG, or WEBP."
    /\ reads = 0

\* C7, as claimed: under a percentage preset every encoded file has the size
\* (max(1, round(ow*pct/100)), max(1, round(oh*pct/100))), keep_ratio or not.
C7_ResizedToPercentTarget ==
    EncodedWithPercent =>
        /\ IsPercentOf(last.size[1], last.orig[1], pct[1])
        /\ IsPercentOf(last.size[2], last.orig[2], pct[1])

\* C7, amended: under a percentage preset the target of every encoded file
\* is (max(1, round(ow*pct/100)), max(1, round(oh*pct/100))) of its own
\* original size; without keep_ratio the file gets that size, with keep_ratio
\* a size inside that box that meets it in one dimension at least.
C7_PercentTargetFitted ==
    EncodedWithPercent =>
        LET tw == last.target[1][1]
            th == last.target[2][1]
        IN  /\ IsPercentOf(tw, last.orig[1], pct[1])
            /\ IsPercentOf(th, last.orig[2], pct[1])
            /\ ~req.keep_ratio => last.size = <<tw, th>>
            /\ req.keep_ratio =>
                  /\ last.size[1] >= 1 /\ last.size[1] <= tw
                  /\ last.size[2] >= 1 /\ last.size[2] <= th
                  /\ last.size[1] = tw \/ last.size[2] = th

\* 800x600 at 50% gives 400x300 after a 1000x1000 file gave 500x500
C7_Witness ==
    /\ EncodedWithPercent
    /\ pct = Some(50) /\ req.keep_ratio
    /\ processed_count = 2
    /\ last.orig = <<800, 600>> /\ last.size = <<400, 300>>

\* C8: in process_zip a preset token that is neither a valid percentage nor
\* a valid WxH is treated as no preset: every file is sized from the explicit
\* width and height, and the request fails on a dimension only if those are
\* out of range.
C8_InvalidPresetIgnored ==
    (IsZip /\ req.preset \in InvalidPresetTokens) =>
        /\ last # NoLast => last.target = <<w, h>>
        /\ ~ExplicitOutOfRange => detail \notin DimErrors

\* C4: with both target dimensions set, the size _fit_size_keep_ratio
\* returns is at least 1 in each dimension, inside the target box, and equal
\* to the target in one dimension at least.
C4_FitInsideBox ==
    (ret # NoCall /\ call.tw # None /\ call.th # None) =>
        LET nw == ret[1][1]
            nh == ret[1][2]
        IN  /\ nw >= 1 /\ nh >= 1
            /\ nw <= call.tw[1] /\ nh <= call.th[1]
            /\ nw = call.tw[1] \/ nh = call.th[1]

C4_Witness ==
    /\ ret = Some(<<4, 3>>)
    /\ call.ow = 800 /\ call.oh = 600
    /\ call.tw = Some(8) /\ call.th = Some(3)

\* C9: for PNG the compress_level handed to the encoder is within [0, 9] and
\* nearest to (100 - q) * 9 / 90 for q the quality clamped to [10, 100]; it
\* is 0 at quality 100 and above, 9 at quality 10 and below, and of two calls
\* the one with the higher quality never gets the higher level.
C9_PngEffort ==
    (ret # NoCall /\ call.fmt = s_png) =>
        LET q     == call.quality
            qc    == IF q < 10 THEN 10 ELSE IF q > 100 THEN 100 ELSE q
            level == ret[1].compress_level
        IN  /\ ret[1].ok /\ ret[1].format = "PNG"
            /\ level >= 0 /\ level <= 9
            /\ Nearest(level, (100 - qc) * 9, 90)
            /\ q >= 100 => level = 0
            /\ q <= 10 => level = 9
            /\ (call.prev.saved.format = "PNG" /\ call.prev.quality <= q)
                  => call.prev.saved.compress_level >= level

C9_Witness ==
    /\ ret # NoCall /\ call.fmt = s_png
    /\ call.prev.saved.format = "PNG"
    /\ call.prev.quality = 100 /\ call.prev.saved.compress_level = 0
    /\ call.quality = 5 /\ ret[1].compress_level = 9

=============================================================================
